---- MODULE Spec2Model ----
(***************************************************************************)
(* Model of the timeline controller (MapWithTimeline + TimelineSlider),    *)
(* the point-in-time aggregator (getSupportAtDate), the rolling average    *)
(* (calculateRollingAverage) and the stacked-series alignment              *)
(* (TimeSeriesChart, stacked branch) of the far-right-tracker frontend.    *)
(*                                                                         *)
(* Time.  A JavaScript Date is a count of milliseconds.  Every instant of  *)
(* the model is counted in quanta of one interval period (500 ms), with    *)
(* startDate (2017-01-01T00:00Z) as the origin, so that the 30-day step    *)
(* keeps its real ratio to a day and to the interval period.               *)
(*                                                                         *)
(* React.  A state setter called from an event handler or from the         *)
(* interval callback is followed by a re-render of the component and by    *)
(* its effects; an action of the model is the handler together with that   *)
(* re-render (Commit).  The component body evaluates `new Date()` on every *)
(* render, so endDate is the instant of the latest render.                 *)
(***************************************************************************)
EXTENDS Integers, Sequences, FiniteSets, TLC

VARIABLES
    now,            \* the wall clock, read by `new Date()`
    mounted,        \* the MapWithTimeline component is mounted
    currentDate,    \* useState(endDate): the time cursor
    isPlaying,      \* useState(false)
    endDate,        \* `const endDate = new Date()` of the latest render
    intervals,      \* the active setInterval timers, oldest first
    cleanup,        \* the latest effect returned a cleanup (clearInterval)
    lastEvent,      \* the handler that produced the current state
    seriesByParty,  \* getSupportAtDate: party -> array of {date, value}
    activeParties,  \* getSupportAtDate: the allow-list, or undefined
    targetDate,     \* getSupportAtDate: the instant asked for
    supportAtDate,  \* getSupportAtDate: the number returned
    data,           \* calculateRollingAverage: array of {date, value}
    windowSize,     \* calculateRollingAverage: the window
    rollingAvg,     \* calculateRollingAverage: the array of [date, avg] returned
    rollingAvgs,    \* TimeSeriesChart: party -> its rollingAvg array
    stacked,        \* TimeSeriesChart: useState(false)
    optionSeries,   \* TimeSeriesChart: the line series of option.series
    countryFiles,   \* data/countries/<iso2>.json: what reading each file gives
    summary,        \* HomePage: loadSummary(), the `summary` prop
    countriesData,  \* HomePage: loadAllCountriesData(), the `countriesData` prop
    timeFilteredSummary  \* MapWithTimeline: the memo handed to LeafletMap

ctlVars == <<now, mounted, currentDate, isPlaying, endDate, intervals,
             cleanup, lastEvent>>
supVars == <<seriesByParty, activeParties, targetDate, supportAtDate>>

smoVars == <<data, windowSize, rollingAvg>>
aliVars == <<rollingAvgs, stacked, optionSeries>>
mapVars == <<countryFiles, summary, countriesData, timeFilteredSummary>>
pureVars == <<supVars, smoVars, aliVars>>

vars == <<ctlVars, pureVars, mapVars>>

-----------------------------------------------------------------------------
(* Program constants and the bounds of the model *)

IntervalMs == 500
StepDays == 30
startDate == 0

MsPerUnit == IntervalMs
DayUnits == (24 * 60 * 60 * 1000) \div MsPerUnit
StepUnits == StepDays * DayUnits
IntervalUnits == IntervalMs \div MsPerUnit

\* `undefined` for an optional array of strings.
undefined == <<"undefined">>

Max(S) == CHOOSE x \in S : \A y \in S : y <= x
Min(S) == CHOOSE x \in S : \A y \in S : x <= y

\* A number that is the result of a division is kept exact, as a fraction in
\* lowest terms with a positive denominator; `null` has denominator 0.
RECURSIVE GCD(_, _)
GCD(a, b) == IF b = 0 THEN a ELSE GCD(b, a % b)
Rat(n, d) ==
    LET g == GCD(IF n < 0 THEN -n ELSE n, d)
    IN [num |-> n \div g, den |-> d \div g]
RatAdd(x, y) == Rat(x.num * y.den + y.num * x.den, x.den * y.den)
RatDiv(x, k) == Rat(x.num, x.den * k)
null == [num |-> 0, den |-> 0]

\* The view is opened Lead quanta before the instant that lies SpanSteps
\* whole steps after startDate, and the clock is followed for MaxElapsed quanta.
SpanSteps == 2
Lead == 2
MaxElapsed == 4

\* Observations are dated on the days 0..MaxDay after 2017-01-01.
MaxDay == 1

FirstNow == startDate + SpanSteps * StepUnits - Lead
LastNow == FirstNow + MaxElapsed

-----------------------------------------------------------------------------
(* TimelineSlider *)

\* Math.floor((endDate - startDate) / (1000*60*60*24)): the slider's max.
totalDays == (endDate - startDate) \div DayUnits

\* Math.floor((currentDate - startDate) / (1000*60*60*24)): the slider's value.
currentDays == (currentDate - startDate) \div DayUnits

\* handleSliderChange: the date handed to onDateChange for slider value v.
SliderDate(v) == startDate + v * DayUnits

-----------------------------------------------------------------------------
(* getSupportAtDate *)

\* The parties of a country, in the order of Object.entries(seriesByParty).
PartyOrder == <<"A", "B">>
Parties == {PartyOrder[i] : i \in 1..Len(PartyOrder)}

\* new Date(point.date) for the date string of day d ("YYYY-MM-DD"): midnight
\* UTC of that day, as an instant.
ParseDate(d) == startDate + d * DayUnits

\* activeParties.includes(party)
Includes(list, x) == \E i \in 1..Len(list) : list[i] = x

\* `if (activeParties && !activeParties.includes(party)) continue;`
SkipsParty(active, party) == active # undefined /\ ~Includes(active, party)

\* let latestValue = null; let latestDate = null;
NoLatest == [found |-> FALSE, date |-> 0, value |-> 0]

TakesPoint_AnyEarlier(pointDate, targetD, latest) ==
    pointDate <= targetD

TakesPoint_StrictlyBefore(pointDate, targetD, latest) ==
    /\ pointDate < targetD
    /\ (~latest.found \/ pointDate > latest.date)

TakesPoint_LastWins(pointDate, targetD, latest) ==
    /\ pointDate <= targetD
    /\ (~latest.found \/ pointDate >= latest.date)

\* if (pointDate <= targetDate) { if (!latestDate || pointDate > latestDate) ...
TakesPoint(pointDate, targetD, latest) ==
    /\ pointDate <= targetD
    /\ (~latest.found \/ pointDate > latest.date)

\* for (const point of series) { ... }, from index i on.
RECURSIVE ScanSeries(_, _, _, _)
ScanSeries(series, i, targetD, latest) ==
    IF i > Len(series)
       THEN latest
       ELSE LET pointDate == ParseDate(series[i].date)
            IN ScanSeries(series, i + 1, targetD,
                          IF TakesPoint(pointDate, targetD, latest)
                             THEN [found |-> TRUE, date |-> pointDate,
                                   value |-> series[i].value]
                             ELSE latest)

\* for (const [party, series] of Object.entries(seriesByParty)) { ... }, from
\* entry k on, with the running totalSupport and partyCount; a party that is
\* no key of the object is no entry.
RECURSIVE SumParties(_, _, _, _, _, _)
SumParties(byParty, active, targetD, k, totalSupport, partyCount) ==
    IF k > Len(PartyOrder)
       THEN [totalSupport |-> totalSupport, partyCount |-> partyCount]
       ELSE LET party == PartyOrder[k]
                latest == ScanSeries(byParty[party], 1, targetD, NoLatest)
            IN IF party \notin DOMAIN byParty \/ SkipsParty(active, party)
                     \/ ~latest.found
                  THEN SumParties(byParty, active, targetD, k + 1,
                                  totalSupport, partyCount)
                  ELSE SumParties(byParty, active, targetD, k + 1,
                                  totalSupport + latest.value, partyCount + 1)

getSupportAtDate(byParty, active, targetD) ==
    LET r == SumParties(byParty, active, targetD, 1, 0, 0)
    IN IF r.partyCount > 0 THEN r.totalSupport ELSE 0

-----------------------------------------------------------------------------
(* HomePage: loadSummary and loadAllCountriesData *)

\* The countries of summary.json.
Countries == {"DE", "FR"}

\* {}: an object without keys.
EmptyObject == [k \in {} |-> <<>>]

\* What reading data/countries/<iso2>.json gives: fs.readFileSync throws (no
\* such file), JSON.parse throws (the text is not JSON), or the parsed object.
NoFile == [kind |-> "ENOENT"]
NotJson == [kind |-> "SyntaxError"]
Parsed(obj) == [kind |-> "json", data |-> obj]

\* loadSummary() when data/summary.json cannot be read: null.
NoSummary == [loaded |-> FALSE, countries |-> EmptyObject]

\* The try block of loadAllCountriesData ends without an exception.
LoadsCountry(file) == file.kind = "json"

\* data.seriesByParty || {}
SeriesOrEmpty(obj) ==
    IF "seriesByParty" \in DOMAIN obj THEN obj.seriesByParty ELSE EmptyObject

\* countriesData[iso2] = { country, iso2, seriesByParty }: no other property of
\* the parsed object is copied (the display name is left out of the model).
CountryEntry(obj) == [iso2 |-> obj.iso2, seriesByParty |-> SeriesOrEmpty(obj)]

\* loadAllCountriesData(): a country whose file cannot be read or parsed has
\* no entry.
loadAllCountriesData(sum, files) ==
    IF ~sum.loaded
       THEN EmptyObject
       ELSE [iso2 \in {c \in DOMAIN sum.countries : LoadsCountry(files[c])} |->
               CountryEntry(files[iso2].data)]

-----------------------------------------------------------------------------
(* MapWithTimeline: timeFilteredSummary *)

\* countryData.activeParties: undefined when the object has no such property.
ActivePartiesOf(countryData) ==
    IF "activeParties" \in DOMAIN countryData
       THEN countryData.activeParties
       ELSE undefined

\* The summary entry with latestSupport computed for the cursor cd.
SupportedCountry(countryInfo, countryData, cd) ==
    [countryInfo EXCEPT !.latestSupport =
        getSupportAtDate(countryData.seriesByParty, ActivePartiesOf(countryData), cd)]

FilteredCountry_ZeroWhenMissing(countryInfo, cdata, iso2, cd) ==
    IF iso2 \notin DOMAIN cdata
       THEN [countryInfo EXCEPT !.latestSupport = 0]
       ELSE SupportedCountry(countryInfo, cdata[iso2], cd)

\* The body of the loop over Object.entries(summary.countries):
\* const countryData = countriesData[iso2];
\* if (!countryData) { filteredCountries[iso2] = countryInfo; continue; }
FilteredCountry(countryInfo, cdata, iso2, cd) ==
    IF iso2 \notin DOMAIN cdata
       THEN countryInfo
       ELSE SupportedCountry(countryInfo, cdata[iso2], cd)

FilterSummary_Stale(sum, cdata, cd) ==
    IF ~sum.loaded
       THEN sum
       ELSE [sum EXCEPT !.countries =
               [iso2 \in DOMAIN sum.countries |->
                  FilteredCountry(sum.countries[iso2], cdata, iso2, currentDate)]]

\* useMemo(() => { ... }, [summary, countriesData, currentDate]) for the
\* cursor cd; `if (!summary) return undefined;`.
FilterSummary(sum, cdata, cd) ==
    IF ~sum.loaded
       THEN sum
       ELSE [sum EXCEPT !.countries =
               [iso2 \in DOMAIN sum.countries |->
                  FilteredCountry(sum.countries[iso2], cdata, iso2, cd)]]

-----------------------------------------------------------------------------
(* MapWithTimeline: render and animation effect *)

RemoveLast(s) == IF Len(s) = 0 THEN s ELSE SubSeq(s, 1, Len(s) - 1)

\* The effect's cleanup: clearInterval(interval) of the interval the latest
\* effect created (the youngest one).
ClearEffectInterval_Leak(ivs) == ivs

ClearEffectInterval(ivs) == IF cleanup THEN RemoveLast(ivs) ELSE ivs

\* The animation effect after a render at `now` with playing flag ip.  Its
\* dependency endDate is a new Date object on every render, so the effect
\* re-runs after every render: cleanup of the previous one, then
\* `if (!isPlaying) return;` or a new interval that captures this render's
\* endDate.
RunEffect(ip) ==
    LET cleared == ClearEffectInterval(intervals)
    IN /\ intervals' = IF ip
                          THEN Append(cleared, [endDate |-> now, armedAt |-> now])
                          ELSE cleared
       /\ cleanup' = ip

\* A state update followed by the re-render it causes: the memo is recomputed
\* for the new cursor.
Commit(cd, ip, ev) ==
    /\ currentDate' = cd
    /\ isPlaying' = ip
    /\ endDate' = now
    /\ RunEffect(ip)
    /\ lastEvent' = ev
    /\ timeFilteredSummary' = FilterSummary(summary, countriesData, cd)
    /\ UNCHANGED <<now, mounted, pureVars, countryFiles, summary, countriesData>>

\* The updater of the interval callback, for an interval whose closure holds
\* end bound e: the next cursor and the next playing flag.
NextDate(prev) == prev + StepUnits

TickReachesEnd_Strict(prev, e) == NextDate(prev) > e

TickReachesEnd(prev, e) == NextDate(prev) >= e

TickCursor_NoClamp(prev, e) == NextDate(prev)

TickCursor(prev, e) == IF TickReachesEnd(prev, e) THEN e ELSE NextDate(prev)

TickPlaying(prev, e, ip) == IF TickReachesEnd(prev, e) THEN FALSE ELSE ip

\* setInterval callback of interval i, at least one period after it was armed.
Tick(i) ==
    /\ i \in 1..Len(intervals)
    /\ now - intervals[i].armedAt >= IntervalUnits
    /\ IF mounted
          THEN Commit(TickCursor(currentDate, intervals[i].endDate),
                      TickPlaying(currentDate, intervals[i].endDate, isPlaying),
                      IF TickReachesEnd(currentDate, intervals[i].endDate)
                         THEN "stop" ELSE "advance")
          ELSE /\ intervals' = [intervals EXCEPT ![i].armedAt = now]
               /\ lastEvent' = "leak"
               /\ UNCHANGED <<now, mounted, currentDate, isPlaying, endDate, cleanup,
                              pureVars, mapVars>>

\* handlePlayPause
PlayRestarts == currentDate >= endDate /\ ~isPlaying

HandlePlayPause_PlayOnly ==
    /\ mounted
    /\ IF PlayRestarts
          THEN Commit(startDate, TRUE, "restart")
          ELSE Commit(currentDate, TRUE, IF isPlaying THEN "pause" ELSE "play")

HandlePlayPause ==
    /\ mounted
    /\ IF PlayRestarts
          THEN Commit(startDate, TRUE, "restart")
          ELSE Commit(currentDate, ~isPlaying, IF isPlaying THEN "pause" ELSE "play")

HandleSliderChange_Pauses(v) ==
    /\ mounted
    /\ v \in 0..totalDays
    /\ Commit(SliderDate(v), FALSE, "slider")

HandleSliderChange_Lost(v) ==
    /\ mounted
    /\ v \in 0..totalDays
    /\ Commit(currentDate, isPlaying, "slider")

\* handleSliderChange -> onDateChange = setCurrentDate
HandleSliderChange(v) ==
    /\ mounted
    /\ v \in 0..totalDays
    /\ Commit(SliderDate(v), isPlaying, "slider")

\* Unmount: React runs the effect's cleanup.
Unmount ==
    /\ mounted
    /\ mounted' = FALSE
    /\ intervals' = ClearEffectInterval(intervals)
    /\ cleanup' = FALSE
    /\ lastEvent' = "unmount"
    /\ UNCHANGED <<now, currentDate, isPlaying, endDate, pureVars, mapVars>>

\* Time passes.
Advance ==
    /\ now < LastNow
    /\ now' = now + 1
    /\ UNCHANGED <<mounted, currentDate, isPlaying, endDate, intervals, cleanup,
                   lastEvent, pureVars, mapVars>>

\* First render: endDate = new Date(), useState(endDate), useState(false);
\* the effect returns at `if (!isPlaying) return;`.
FirstRender ==
    /\ now = FirstNow
    /\ mounted = TRUE
    /\ endDate = now
    /\ currentDate = endDate
    /\ isPlaying = FALSE
    /\ intervals = <<>>
    /\ cleanup = FALSE
    /\ lastEvent = "mount"

\* No country is loaded into the map, no chart is shown.
NoSupportData ==
    /\ seriesByParty = <<>>
    /\ activeParties = undefined
    /\ targetDate = FirstNow
    /\ supportAtDate = 0

NoSmoothing ==
    /\ data = <<>>
    /\ windowSize = 0
    /\ rollingAvg = <<>>

NoChart ==
    /\ rollingAvgs = <<>>
    /\ stacked = FALSE
    /\ optionSeries = <<>>

\* HomePage renders: the two loaders run, and the first render of
\* MapWithTimeline computes the memo for its cursor.
LoadPage(sum, files) ==
    /\ countryFiles = files
    /\ summary = sum
    /\ countriesData = loadAllCountriesData(sum, files)
    /\ timeFilteredSummary = FilterSummary(summary, countriesData, currentDate)

\* No data directory: neither summary.json nor any country file.
NoMap == LoadPage(NoSummary, [c \in Countries |-> NoFile])

\* The data directory of the session the controller is followed in: DE has
\* two parties with observations on the day of startDate and one step later
\* and no allow-list, FR has no country file.
SessionSummary ==
    [loaded |-> TRUE,
     countries |->
        [c \in Countries |->
           IF c = "DE" THEN [activeParties |-> undefined, latestSupport |-> 17]
                       ELSE [activeParties |-> undefined, latestSupport |-> 31]]]
SessionFiles ==
    [c \in Countries |->
       IF c = "DE"
          THEN Parsed([iso2 |-> "DE",
                       seriesByParty |->
                          [p \in Parties |->
                             IF p = "A"
                                THEN <<[date |-> 0, value |-> 12],
                                       [date |-> StepDays, value |-> 20]>>
                                ELSE <<[date |-> 0, value |-> 5]>>]])
          ELSE NoFile]

Init ==
    /\ FirstRender
    /\ NoSupportData
    /\ NoSmoothing
    /\ NoChart
    /\ LoadPage(SessionSummary, SessionFiles)

TickSome == \E i \in 1..Len(intervals) : Tick(i)
SliderSome == \E v \in 0..totalDays : HandleSliderChange(v)

Next ==
    \/ TickSome
    \/ HandlePlayPause
    \/ SliderSome
    \/ Unmount
    \/ Advance

Spec == Init /\ [][Next]_vars

-----------------------------------------------------------------------------
(* A playback that is left to run: the timer fires when it is due *)

\* The clock is followed until a playback requested at LastNow has had the
\* time of all its ticks: at most SpanSteps + 1 of them, one period each.
LiveLastNow == LastNow + (SpanSteps + 1) * IntervalUnits

\* The callback of some interval is due.
TickDue == \E i \in 1..Len(intervals) : now - intervals[i].armedAt >= IntervalUnits

\* Time passes up to the instant a callback is due: setInterval runs the
\* callback when its period has elapsed.
Elapse ==
    /\ now < LiveLastNow
    /\ ~TickDue
    /\ now' = now + 1
    /\ UNCHANGED <<mounted, currentDate, isPlaying, endDate, intervals, cleanup,
                   lastEvent, pureVars, mapVars>>

\* The play button and the slider are used while the controller is Idle, up
\* to LastNow; a playback is left alone.
PlayRequest == ~isPlaying /\ now <= LastNow /\ HandlePlayPause
IdleSlider == ~isPlaying /\ now <= LastNow /\ SliderSome

NextLive ==
    \/ TickSome
    \/ PlayRequest
    \/ IdleSlider
    \/ Elapse

\* The event loop runs every due callback and the clock does not stop.
SpecLive ==
    Init /\ [][NextLive]_vars /\ WF_vars(TickSome) /\ WF_vars(Elapse)

-----------------------------------------------------------------------------
(* The map of a data directory: HomePage, MapWithTimeline, the slider *)

\* Bound of the country files: the series of a file hold at most MaxMapObs
\* observations together, on the days 0..MaxDay; a value may be negative.
MaxMapObs == 2
MapObsValues == {-3, 12}
MapObservations == [date : 0..MaxDay, value : MapObsValues]

\* The seriesByParty objects of a country file.
MapSeries ==
    UNION {UNION {{[p \in Parties |-> IF p = "A" THEN sA ELSE sB] :
                     sA \in [1..nA -> MapObservations],
                     sB \in [1..nB -> MapObservations]} :
                  nB \in 0..(MaxMapObs - nA)} :
           nA \in 0..MaxMapObs}

\* The parsed objects of DE.json: without series, with series, and with
\* series and an allow-list.
DetailObjects ==
    {[iso2 |-> "DE"]}
    \cup {[iso2 |-> "DE", seriesByParty |-> sbp] : sbp \in MapSeries}
    \cup {[iso2 |-> "DE", seriesByParty |-> sbp, activeParties |-> <<"A">>] :
            sbp \in MapSeries}

\* What reading the file of a country gives: every case for DE, a few for FR.
FilesOf(c) ==
    IF c = "DE"
       THEN {NoFile, NotJson} \cup {Parsed(obj) : obj \in DetailObjects}
       ELSE {NoFile, NotJson, Parsed([iso2 |-> "FR"]),
             Parsed([iso2 |-> "FR",
                     seriesByParty |->
                        [p \in Parties |->
                           IF p = "A" THEN <<[date |-> 0, value |-> 12]>> ELSE <<>>]])}

\* The entries of summary.countries.
SummaryInfos == [activeParties : {undefined, <<"A">>}, latestSupport : {17}]

\* The map is opened on a data directory.
InitMap ==
    /\ FirstRender
    /\ NoSupportData
    /\ NoSmoothing
    /\ NoChart
    /\ \E infos \in [Countries -> SummaryInfos] :
       \E fileDE \in FilesOf("DE") : \E fileFR \in FilesOf("FR") :
          LoadPage([loaded |-> TRUE, countries |-> infos],
                   [c \in Countries |-> IF c = "DE" THEN fileDE ELSE fileFR])

\* The slider is dragged to one of the first days of the timeline.
NextMap == \E v \in 0..(MaxDay + 1) : HandleSliderChange(v)

SpecMap == InitMap /\ [][NextMap]_vars

-----------------------------------------------------------------------------
(* getSupportAtDate: the inputs of the model *)

\* Bound of the aggregator's inputs: a country holds at most MaxObs
\* observations, dated on the days 0..MaxDay.
MaxObs == 3
ObsValues == {5, 12}
ActiveLists == {undefined, <<>>, <<"A">>, <<"B">>, <<"A", "B">>}


\* The observations a series may hold, and the instants asked for: startDate,
\* and the midnight of every later day up to the day after the last
\* observation date with the quantum before it.
Observations == [date : 0..MaxDay, value : ObsValues]
TargetDates ==
    {startDate} \cup UNION {{ParseDate(d) - 1, ParseDate(d)} : d \in 1..(MaxDay + 1)}

\* First render of the map for some loaded country: the cursor is after every
\* observation.
InitSupport ==
    /\ FirstRender
    /\ \E nA \in 0..MaxObs : \E nB \in 0..(MaxObs - nA) :
         \E sA \in [1..nA -> Observations] : \E sB \in [1..nB -> Observations] :
            seriesByParty = [p \in Parties |-> IF p = "A" THEN sA ELSE sB]
    /\ activeParties \in ActiveLists
    /\ targetDate = ParseDate(MaxDay + 1)
    /\ supportAtDate = getSupportAtDate(seriesByParty, activeParties, targetDate)
    /\ NoSmoothing
    /\ NoChart
    /\ NoMap

\* timeFilteredSummary is recomputed for a new cursor date.
SetTargetDate(d) ==
    /\ d # targetDate
    /\ targetDate' = d
    /\ supportAtDate' = getSupportAtDate(seriesByParty, activeParties, d)
    /\ UNCHANGED <<seriesByParty, activeParties, ctlVars, smoVars, aliVars, mapVars>>

NextSupport == \E d \in TargetDates : SetTargetDate(d)

SpecSupport == InitSupport /\ [][NextSupport]_vars

-----------------------------------------------------------------------------
(* getSupportAtDate: properties *)

\* What the properties say of the aggregator is stated on the input series
\* themselves, without the scan of getSupportAtDate.

\* The instants of the observations of a series that lie at or before D.
DatesAtOrBefore(series, D) ==
    {ParseDate(series[i].date) : i \in {j \in 1..Len(series) : ParseDate(series[j].date) <= D}}

\* The values the series carries on its latest date at or before D.
LatestValues(series, D) ==
    {series[i].value :
        i \in {j \in 1..Len(series) :
                 ParseDate(series[j].date) = Max(DatesAtOrBefore(series, D))}}

Contributes(party) == activeParties = undefined \/ Includes(activeParties, party)

Contribution(party, D) ==
    IF Contributes(party) /\ DatesAtOrBefore(seriesByParty[party], D) # {}
       THEN LatestValues(seriesByParty[party], D)
       ELSE {0}

RECURSIVE ContributionSums(_, _)
ContributionSums(k, D) ==
    IF k > Len(PartyOrder)
       THEN {0}
       ELSE {a + b : a \in Contribution(PartyOrder[k], D),
                     b \in ContributionSums(k + 1, D)}

\* C2: the support at the target date is the sum, over the contributing
\* parties, of the value of the party's observation with the latest date at or
\* before the target date, a party with no such observation contributing 0;
\* it is 0 when no contributing party has an observation at or before the date.
C2_SupportIsSumOfLatest ==
    /\ supportAtDate \in ContributionSums(1, targetDate)
    /\ (\A p \in Parties :
          Contributes(p) => DatesAtOrBefore(seriesByParty[p], targetDate) = {})
       => supportAtDate = 0

\* One party's latest value is 12 and the other has no data yet: 12.
C2_Witness ==
    /\ targetDate = ParseDate(1) - 1
    /\ seriesByParty["A"] = <<[date |-> 0, value |-> 12]>>
    /\ seriesByParty["B"] = <<[date |-> 1, value |-> 5]>>
    /\ activeParties = <<"A", "B">>
    /\ supportAtDate = 12

\* Some party has an observation whose instant d satisfies lo < d < hi.
ObservationStrictlyBetween(lo, hi) ==
    \E p \in Parties : \E i \in 1..Len(seriesByParty[p]) :
       lo < ParseDate(seriesByParty[p][i].date) /\ ParseDate(seriesByParty[p][i].date) < hi

\* Some party has an observation whose instant d satisfies lo < d <= hi.
ObservationAfterUpTo(lo, hi) ==
    \E p \in Parties : \E i \in 1..Len(seriesByParty[p]) :
       lo < ParseDate(seriesByParty[p][i].date) /\ ParseDate(seriesByParty[p][i].date) <= hi

\* C3 as claimed: for any two dates D1 < D2 with no observation of any party
\* dated strictly between them, the support at D1 equals the support at D2.
C3_ConstantBetweenStrict ==
    [][ LET D1 == Min({targetDate, targetDate'})
            D2 == Max({targetDate, targetDate'})
        IN ~ObservationStrictlyBetween(D1, D2) => supportAtDate' = supportAtDate ]_vars

\* C3 as amended: for any two dates D1 < D2 with no observation of any party
\* dated after D1 and at or before D2, the support at D1 equals the support
\* at D2.
C3_ConstantBetween ==
    [][ LET D1 == Min({targetDate, targetDate'})
            D2 == Max({targetDate, targetDate'})
        IN ~ObservationAfterUpTo(D1, D2) => supportAtDate' = supportAtDate ]_vars

\* The cursor stands between two observation dates of a party and the support
\* is the value of the earlier one.
C3_Witness ==
    /\ targetDate = ParseDate(1) - 1
    /\ seriesByParty["A"] = <<[date |-> 0, value |-> 5], [date |-> 1, value |-> 12]>>
    /\ seriesByParty["B"] = <<>>
    /\ activeParties = undefined
    /\ supportAtDate = 5

-----------------------------------------------------------------------------
(* The map: properties *)

\* The sums of one latest value at or before D of every party of byParty that
\* is in the set allowed and has an observation at or before D, from the k-th
\* party on.
RECURSIVE LatestSums(_, _, _, _)
LatestSums(byParty, allowed, k, D) ==
    IF k > Len(PartyOrder)
       THEN {0}
       ELSE LET party == PartyOrder[k]
                own == IF party \in DOMAIN byParty /\ party \in allowed
                          /\ DatesAtOrBefore(byParty[party], D) # {}
                          THEN LatestValues(byParty[party], D)
                          ELSE {0}
            IN {a + b : a \in own, b \in LatestSums(byParty, allowed, k + 1, D)}

\* The value the map is given for country c.
Published(c) == timeFilteredSummary.countries[c].latestSupport

\* The series of the detail record of country c, as upstream wrote them.
UpstreamSeries(c) ==
    IF "seriesByParty" \in DOMAIN countryFiles[c].data
       THEN countryFiles[c].data.seriesByParty
       ELSE EmptyObject

\* The allow-list the upstream records of country c configure: the one of the
\* detail record, else the one of the summary record, else none.
ConfiguredAllowList(c) ==
    IF "activeParties" \in DOMAIN countryFiles[c].data
       THEN countryFiles[c].data.activeParties
       ELSE summary.countries[c].activeParties

AllowedParties(c) ==
    IF ConfiguredAllowList(c) = undefined
       THEN Parties
       ELSE {ConfiguredAllowList(c)[i] : i \in 1..Len(ConfiguredAllowList(c))}

\* C14 (active-set restriction): for a country with a detail record, the value
\* published for the cursor date sums only the latest values of the parties of
\* the allow-list its upstream records configure, and of all its parties when
\* they configure none.
C14_ActiveSetRestriction ==
    \A c \in Countries :
       countryFiles[c].kind = "json"
          => Published(c) \in LatestSums(UpstreamSeries(c), AllowedParties(c), 1, currentDate)

IsNormalized(series) ==
    /\ \A i \in 1..Len(series) : series[i].value >= 0
    /\ \A i \in 1..Len(series) : \A j \in 1..Len(series) :
          i < j => series[i].date <= series[j].date

\* C16 (normalization on load): every series handed to getSupportAtDate has no
\* negative value and is in ascending date order, so no negative observation
\* contributes to a published value.
C16_NormalizedOnLoad ==
    \A c \in DOMAIN countriesData :
       /\ \A p \in DOMAIN countriesData[c].seriesByParty :
             IsNormalized(countriesData[c].seriesByParty[p])
       /\ Published(c) >= 0

-----------------------------------------------------------------------------
(* calculateRollingAverage *)

\* windowSize: number = 5, and the 5 of both call sites.
DefaultWindow == 5

\* Bounds of the smoother's inputs: series of at most MaxLen observations on
\* the days 0..MaxDay, windows 1..MaxWindow and the default one.
MaxLen == 3
MaxWindow == 3
RawValues == {10, 13}
RawPoints == [date : 0..MaxDay, value : RawValues]
WindowSizes == (1..MaxWindow) \cup {DefaultWindow}

\* Five weekly observations 10, 12, 14, 16, 18.
WeeklySeries ==
    [i \in 1..5 |-> [date |-> 7 * (i - 1), value |-> 8 + 2 * i]]

\* window.reduce((sum, d) => sum + d.value, 0), from element k of the window on.
RECURSIVE ReduceSum(_, _, _)
ReduceSum(window, k, sum) ==
    IF k > Len(window) THEN sum
    ELSE ReduceSum(window, k + 1, sum + window[k].value)

\* data.slice(from, to) with 0 <= from <= to <= data.length
Slice(arr, from, to) == SubSeq(arr, from + 1, to)

FirstIndex_Late(w) == w

\* let i = windowSize - 1
FirstIndex(w) == w - 1

\* One iteration of the loop, for the 0-based index i.
RollingPoint(arr, w, i) ==
    LET window == Slice(arr, i - w + 1, i + 1)
        avg == Rat(ReduceSum(window, 1, 0), w)
    IN <<arr[i + 1].date, avg>>

\* for (let i = ...; i < data.length; i++) { ... result.push(...) }
RECURSIVE RollingLoop(_, _, _, _)
RollingLoop(arr, w, i, result) ==
    IF i < Len(arr)
       THEN RollingLoop(arr, w, i + 1, Append(result, RollingPoint(arr, w, i)))
       ELSE result

calculateRollingAverage(arr, w) ==
    IF Len(arr) < w
       THEN <<>>
       ELSE RollingLoop(arr, w, FirstIndex(w), <<>>)

\* A series is smoothed with the default window.
InitSmooth ==
    /\ FirstRender
    /\ NoSupportData
    /\ NoChart
    /\ NoMap
    /\ \/ \E n \in 0..MaxLen : data \in [1..n -> RawPoints]
       \/ data = WeeklySeries
    /\ windowSize = DefaultWindow
    /\ rollingAvg = calculateRollingAverage(data, windowSize)

\* The same series is smoothed with another window.
Smooth(w) ==
    /\ w # windowSize
    /\ windowSize' = w
    /\ rollingAvg' = calculateRollingAverage(data, w)
    /\ UNCHANGED <<data, ctlVars, supVars, aliVars, mapVars>>

NextSmooth == \E w \in WindowSizes : Smooth(w)

SpecSmooth == InitSmooth /\ [][NextSmooth]_vars

-----------------------------------------------------------------------------
(* calculateRollingAverage: properties *)

RECURSIVE SumOfValues(_, _, _)
SumOfValues(arr, lo, hi) ==
    IF lo > hi THEN 0 ELSE arr[lo].value + SumOfValues(arr, lo + 1, hi)

\* C4: the smoothed series has max(0, len - w + 1) points; its k-th point
\* (counted from 0) carries the date of the raw point of index k + w - 1 and
\* the mean of the w raw values of indices k .. k + w - 1.
C4_RollingAverage ==
    /\ Len(rollingAvg) = Max({0, Len(data) - windowSize + 1})
    /\ \A k \in 0..(Len(rollingAvg) - 1) :
          /\ rollingAvg[k + 1][1] = data[k + windowSize].date
          /\ rollingAvg[k + 1][2].den > 0
          /\ rollingAvg[k + 1][2].num * windowSize
                = rollingAvg[k + 1][2].den * SumOfValues(data, k + 1, k + windowSize)

\* Three observations smoothed with window 2 give two points, the means of
\* the first two and of the last two.
C4_Witness ==
    /\ windowSize = 2
    /\ data = <<[date |-> 0, value |-> 10], [date |-> 1, value |-> 13],
                [date |-> 1, value |-> 13]>>
    /\ rollingAvg = <<<<1, [num |-> 23, den |-> 2]>>, <<1, [num |-> 13, den |-> 1]>>>>

-----------------------------------------------------------------------------
(* TimeSeriesChart: the stacked branch (alignment on shared dates) *)

\* Bounds of the chart's inputs: every party's rolling average holds at most
\* MaxAvgLen points, dated on the days 0..MaxAvgDay.
MaxAvgLen == 2
MaxAvgDay == 3
AvgValues == [A |-> {10, 20}, B |-> {5}]
AvgPoints(party) ==
    {<<d, Rat(v, 1)>> : d \in 0..MaxAvgDay, v \in AvgValues[party]}

\* avgMap after rollingAvg.forEach(([date, value]) => avgMap.set(date, value)),
\* from element i on: a later entry of a date replaces an earlier one.
RECURSIVE SetAll(_, _, _)
SetAll(avg, i, avgMap) ==
    IF i > Len(avg) THEN avgMap
    ELSE SetAll(avg, i + 1, (avg[i][1] :> avg[i][2]) @@ avgMap)

EmptyMap == [d \in {} |-> null]

\* rollingAvgsByParty[name]
rollingAvgsByParty(avgs, name) == SetAll(avgs[name], 1, EmptyMap)

\* allDatesSet after the first forEach over the parties.
allDatesSet(avgs) ==
    UNION {{avgs[name][i][1] : i \in 1..Len(avgs[name])} : name \in Parties}

\* Array.from(set).sort(): date strings of one format sort as their days do.
RECURSIVE SortDates(_)
SortDates(S) ==
    IF S = {} THEN <<>>
    ELSE <<Min(S)>> \o SortDates(S \ {Min(S)})

\* The dates of avg from element i on, appended to out when not yet in it.
RECURSIVE AppendNew(_, _, _)
AppendNew(avg, i, out) ==
    IF i > Len(avg) THEN out
    ELSE AppendNew(avg, i + 1,
                   IF \E k \in 1..Len(out) : out[k] = avg[i][1]
                      THEN out ELSE Append(out, avg[i][1]))

\* Array.from(allDatesSet) without .sort(): the order of insertion.
sortedDates_Unsorted(avgs) ==
    AppendNew(avgs[PartyOrder[2]], 1, AppendNew(avgs[PartyOrder[1]], 1, <<>>))

sortedDates(avgs) == SortDates(allDatesSet(avgs))

\* avgMap.has(date)
Has(avgMap, date) == date \in DOMAIN avgMap

\* sortedDates.filter(date => avgMap.has(date))
partyDates(sorted, avgMap) == SelectSeq(sorted, LAMBDA d : Has(avgMap, d))

\* while (prevIdx >= 0 && prevValue === null) { ... prevIdx-- }, with the
\* 0-based prevIdx.
RECURSIVE PrevValue(_, _, _)
PrevValue(sorted, avgMap, prevIdx) ==
    IF prevIdx < 0 THEN null
    ELSE IF Has(avgMap, sorted[prevIdx + 1]) THEN avgMap[sorted[prevIdx + 1]]
    ELSE PrevValue(sorted, avgMap, prevIdx - 1)

\* while (nextIdx < sortedDates.length && nextValue === null) { ... nextIdx++ }
RECURSIVE NextValue(_, _, _)
NextValue(sorted, avgMap, nextIdx) ==
    IF nextIdx >= Len(sorted) THEN null
    ELSE IF Has(avgMap, sorted[nextIdx + 1]) THEN avgMap[sorted[nextIdx + 1]]
    ELSE NextValue(sorted, avgMap, nextIdx + 1)

Interpolated_None(prevValue, nextValue) == null

Interpolated_Previous(prevValue, nextValue) == prevValue

\* if (prevValue !== null && nextValue !== null)
\*     return [date, (prevValue + nextValue) / 2];  return [date, null];
Interpolated(prevValue, nextValue) ==
    IF prevValue # null /\ nextValue # null
       THEN RatDiv(RatAdd(prevValue, nextValue), 2)
       ELSE null

\* partyDates[0] of an empty array: undefined.
noDate == -1

\* a < b for date strings; false when one of them is undefined.
DateBefore(a, b) == a # noDate /\ b # noDate /\ a < b

\* The callback of sortedDates.map((date, idx) => ...), with the 0-based idx.
AlignedPoint(sorted, avgMap, firstDate, lastDate, idx) ==
    LET date == sorted[idx + 1]
    IN IF Has(avgMap, date) THEN <<date, avgMap[date]>>
       ELSE IF DateBefore(date, firstDate) \/ DateBefore(lastDate, date)
               THEN <<date, null>>
       ELSE <<date, Interpolated(PrevValue(sorted, avgMap, idx - 1),
                                 NextValue(sorted, avgMap, idx + 1))>>

alignedData(sorted, avgMap) ==
    LET dates == partyDates(sorted, avgMap)
        firstDate == IF Len(dates) = 0 THEN noDate ELSE dates[1]
        lastDate == IF Len(dates) = 0 THEN noDate ELSE dates[Len(dates)]
    IN [k \in 1..Len(sorted) |->
          AlignedPoint(sorted, avgMap, firstDate, lastDate, k - 1)]

SkipsLayer_Never(dates) == FALSE

\* if (partyDates.length === 0) { return; }
SkipsLayer(dates) == Len(dates) = 0

\* The second forEach over the parties, from entry k on: a party without
\* dates is skipped, the others push a line series.
RECURSIVE StackedSeries(_, _, _)
StackedSeries(avgs, k, out) ==
    IF k > Len(PartyOrder) THEN out
    ELSE LET name == PartyOrder[k]
             avgMap == rollingAvgsByParty(avgs, name)
             sorted == sortedDates(avgs)
         IN IF SkipsLayer(partyDates(sorted, avgMap))
               THEN StackedSeries(avgs, k + 1, out)
               ELSE StackedSeries(avgs, k + 1,
                       Append(out, [name |-> name, stack |-> "total",
                                    data |-> alignedData(sorted, avgMap)]))

\* The non-stacked branch: one line series per party with its rolling
\* average (the scatter series of the raw points is left out).
RECURSIVE LineSeries(_, _, _)
LineSeries(avgs, k, out) ==
    IF k > Len(PartyOrder) THEN out
    ELSE LineSeries(avgs, k + 1,
            Append(out, [name |-> PartyOrder[k], stack |-> "",
                         data |-> avgs[PartyOrder[k]]]))

\* useMemo(() => ..., [seriesByParty, range, stacked]): option.series
Option(avgs, st) ==
    IF st THEN StackedSeries(avgs, 1, <<>>) ELSE LineSeries(avgs, 1, <<>>)

\* First render of the chart of some country: useState(false) for stacked.
InitChart ==
    /\ FirstRender
    /\ NoSupportData
    /\ NoSmoothing
    /\ NoMap
    /\ \E nA \in 0..MaxAvgLen : \E nB \in 0..MaxAvgLen :
         \E sA \in [1..nA -> AvgPoints("A")] : \E sB \in [1..nB -> AvgPoints("B")] :
            rollingAvgs = [p \in Parties |-> IF p = "A" THEN sA ELSE sB]
    /\ stacked = FALSE
    /\ optionSeries = Option(rollingAvgs, stacked)

\* onClick={() => setStacked(!stacked)}
SetStacked ==
    /\ stacked' = ~stacked
    /\ optionSeries' = Option(rollingAvgs, ~stacked)
    /\ UNCHANGED <<rollingAvgs, ctlVars, supVars, smoVars, mapVars>>

NextChart == SetStacked

SpecChart == InitChart /\ [][NextChart]_vars

-----------------------------------------------------------------------------
(* Stacked alignment: properties *)

\* The dates of a party's own smoothed points, and its values on a date.
OwnDates(name) == {rollingAvgs[name][i][1] : i \in 1..Len(rollingAvgs[name])}
OwnValues(name, d) ==
    {rollingAvgs[name][i][2] :
        i \in {j \in 1..Len(rollingAvgs[name]) : rollingAvgs[name][j][1] = d}}

\* The distinct dates of all the smoothed series.
SharedAxis == UNION {OwnDates(name) : name \in Parties}

\* C5: every emitted aligned series has an entry for every date of the shared
\* axis; the entry is defined on every date from the first to the last of the
\* party's own smoothed dates and null on every date before the first or after
\* the last.
C5_DefinedExactlyWithinOwnRange ==
    stacked =>
      \A k \in 1..Len(optionSeries) :
         LET layer == optionSeries[k]
             own == OwnDates(layer.name)
         IN /\ own # {}
            /\ \A d \in SharedAxis : \E j \in 1..Len(layer.data) : layer.data[j][1] = d
            /\ \A j \in 1..Len(layer.data) :
                  (layer.data[j][2] # null)
                     <=> (Min(own) <= layer.data[j][1] /\ layer.data[j][1] <= Max(own))

\* A layer with an interpolated date inside its own range and a null date
\* after it, beside a layer with a null date before its own range.
C5_Witness ==
    /\ stacked
    /\ rollingAvgs["A"] = <<<<0, Rat(10, 1)>>, <<2, Rat(20, 1)>>>>
    /\ rollingAvgs["B"] = <<<<3, Rat(5, 1)>>, <<1, Rat(5, 1)>>>>
    /\ Len(optionSeries) = 2
    /\ optionSeries[1].data =
          <<<<0, Rat(10, 1)>>, <<1, Rat(15, 1)>>, <<2, Rat(20, 1)>>, <<3, null>>>>
    /\ optionSeries[2].data =
          <<<<0, null>>, <<1, Rat(5, 1)>>, <<2, Rat(5, 1)>>, <<3, Rat(5, 1)>>>>

\* v = (p + n) / 2 for fractions v, p, n
IsMidpoint(v, p, n) ==
    /\ v.den > 0
    /\ 2 * v.num * p.den * n.den = v.den * (p.num * n.den + n.num * p.den)

\* C6: in an aligned series, a date on which the party has a smoothed value of
\* its own carries that value; a date without one that lies strictly between
\* the party's first and last dates carries (p + n) / 2, with p the party's own
\* value on its nearest earlier date and n its own value on its nearest later
\* date.
C6_OwnValueOrMidpoint ==
    stacked =>
      \A k \in 1..Len(optionSeries) :
         LET layer == optionSeries[k]
             own == OwnDates(layer.name)
         IN \A j \in 1..Len(layer.data) :
               LET d == layer.data[j][1]
                   v == layer.data[j][2]
               IN /\ d \in own => v \in OwnValues(layer.name, d)
                  /\ (d \notin own /\ own # {} /\ Min(own) < d /\ d < Max(own))
                        => \E p \in OwnValues(layer.name, Max({e \in own : e < d})) :
                           \E n \in OwnValues(layer.name, Min({e \in own : e > d})) :
                              IsMidpoint(v, p, n)

\* A has 10 and 20 on days 0 and 3, B has 5 on day 1: A is 10, 15, 20 and B is
\* null, 5, null.
C6_Witness ==
    /\ stacked
    /\ rollingAvgs["A"] = <<<<0, Rat(10, 1)>>, <<3, Rat(20, 1)>>>>
    /\ rollingAvgs["B"] = <<<<1, Rat(5, 1)>>>>
    /\ Len(optionSeries) = 2
    /\ optionSeries[1].data = <<<<0, Rat(10, 1)>>, <<1, Rat(15, 1)>>, <<3, Rat(20, 1)>>>>
    /\ optionSeries[2].data = <<<<0, null>>, <<1, Rat(5, 1)>>, <<3, null>>>>

\* C18 (shared axis): every aligned series has exactly one entry for every
\* date of the shared axis, in ascending order of date without repetition, and
\* the shared axis is the set of the distinct dates of all the smoothed series.
C18_SharedAxis ==
    stacked =>
      \A k \in 1..Len(optionSeries) :
         LET layer == optionSeries[k].data
         IN /\ Len(layer) = Cardinality(SharedAxis)
            /\ {layer[j][1] : j \in 1..Len(layer)} = SharedAxis
            /\ \A j \in 1..(Len(layer) - 1) : layer[j][1] < layer[j + 1][1]

\* Two smoothed series that are not in date order and share the day 3: both
\* layers run over the days 0, 1, 3.
C18_Witness ==
    /\ stacked
    /\ rollingAvgs["A"] = <<<<3, Rat(10, 1)>>, <<0, Rat(20, 1)>>>>
    /\ rollingAvgs["B"] = <<<<3, Rat(5, 1)>>, <<1, Rat(5, 1)>>>>
    /\ Len(optionSeries) = 2
    /\ [j \in 1..3 |-> optionSeries[1].data[j][1]] = <<0, 1, 3>>
    /\ [j \in 1..3 |-> optionSeries[2].data[j][1]] = <<0, 1, 3>>

-----------------------------------------------------------------------------
(* The views of a country's series together: the map's aggregate, the
   smoothing and the stacked chart *)

\* The view a state belongs to.
ShowsSupport == DOMAIN seriesByParty = Parties
ShowsSmoothing == windowSize > 0
ShowsChart == DOMAIN rollingAvgs = Parties

InitViews == InitSupport \/ InitSmooth \/ InitChart

SupportView == ShowsSupport /\ NextSupport
SmoothView == ShowsSmoothing /\ NextSmooth
ChartView == ShowsChart /\ NextChart

NextViews ==
    \/ SupportView
    \/ SmoothView
    \/ ChartView

SpecViews == InitViews /\ [][NextViews]_vars

\* The indices of the observations of a series on its latest date at or
\* before D.
LatestIndices(series, D) ==
    {i \in 1..Len(series) : ParseDate(series[i].date) = Max(DatesAtOrBefore(series, D))}

\* The sum over the contributing parties with an observation at or before D of
\* the value of the observation pick(I) chooses among the indices I of the
\* observations on the party's latest date, from the k-th party on.
RECURSIVE SumOfPicked(_, _, _)
SumOfPicked(pick(_, _), k, D) ==
    IF k > Len(PartyOrder)
       THEN 0
       ELSE LET series == seriesByParty[PartyOrder[k]]
            IN (IF Contributes(PartyOrder[k]) /\ DatesAtOrBefore(series, D) # {}
                   THEN pick(series, LatestIndices(series, D))
                   ELSE 0)
               + SumOfPicked(pick, k + 1, D)

FirstOccurrence(series, I) == series[Min(I)].value
LastOccurrence(series, I) == series[Max(I)].value
MaxValue(series, I) == Max({series[i].value : i \in I})

\* The last smoothed value of a party on date d, in input order.
LastOwnValue(name, d) ==
    rollingAvgs[name][Max({i \in 1..Len(rollingAvgs[name]) : rollingAvgs[name][i][1] = d})][2]

\* The largest smoothed value of a party on date d (the values of the model
\* are whole numbers).
MaxOwnValue(name, d) ==
    Rat(Max({rollingAvgs[name][i][2].num :
               i \in {j \in 1..Len(rollingAvgs[name]) : rollingAvgs[name][j][1] = d}}), 1)

\* The value rule own(name, d) gives is the value every layer carries on the
\* dates of its party.
LayersCarry(own(_, _)) ==
    \A k \in 1..Len(optionSeries) :
       \A j \in 1..Len(optionSeries[k].data) :
          optionSeries[k].data[j][1] \in OwnDates(optionSeries[k].name)
             => optionSeries[k].data[j][2]
                   = own(optionSeries[k].name, optionSeries[k].data[j][1])

\* C17 as claimed (duplicates): when the latest date at or before D of a party
\* carries several observations, the support uses the last of them in input
\* order, or the largest of them; and the same rule gives the value a date
\* carries in the stacked chart.
C17_LastOrMaxWins ==
    \/ /\ ShowsSupport => supportAtDate = SumOfPicked(LastOccurrence, 1, targetDate)
       /\ (ShowsChart /\ stacked) => LayersCarry(LastOwnValue)
    \/ /\ ShowsSupport => supportAtDate = SumOfPicked(MaxValue, 1, targetDate)
       /\ (ShowsChart /\ stacked) => LayersCarry(MaxOwnValue)

\* C17 as amended: duplicates are resolved deterministically, by the first
\* occurrence in the support and by the last occurrence in the stacked chart:
\* the support uses the first in input order of the observations on the latest
\* date at or before D, and a date of the chart carries the last in input order
\* of the party's smoothed values on it.
C17_FirstWinsThenLastWins ==
    /\ ShowsSupport => supportAtDate = SumOfPicked(FirstOccurrence, 1, targetDate)
    /\ (ShowsChart /\ stacked) => LayersCarry(LastOwnValue)

\* A party has 5 and then 12 on the same day: the support on that day is 5.
C17_Witness ==
    /\ ShowsSupport
    /\ targetDate = ParseDate(1)
    /\ seriesByParty["A"] = <<[date |-> 1, value |-> 5], [date |-> 1, value |-> 12]>>
    /\ seriesByParty["B"] = <<>>
    /\ activeParties = undefined
    /\ supportAtDate = 5

\* The names of the layers of the chart.
LayerNames == {optionSeries[k].name : k \in 1..Len(optionSeries)}

\* C19 (empty series): a series with fewer observations than the window has an
\* empty smoothed series; in the stacked chart a party with an empty smoothed
\* series has no layer, every other party has exactly one layer, and every
\* layer runs over the dates of the non-empty smoothed series only.
C19_EmptySeriesNoLayer ==
    /\ (ShowsSmoothing /\ Len(data) < windowSize) => rollingAvg = <<>>
    /\ (ShowsChart /\ stacked) =>
          /\ \A p \in Parties : rollingAvgs[p] = <<>> <=> p \notin LayerNames
          /\ Len(optionSeries) = Cardinality(LayerNames)
          /\ \A k \in 1..Len(optionSeries) :
                /\ Len(optionSeries[k].data) > 0
                /\ {optionSeries[k].data[j][1] : j \in 1..Len(optionSeries[k].data)}
                      = UNION {OwnDates(p) : p \in {q \in Parties : rollingAvgs[q] # <<>>}}

\* A has no smoothed point and B has two: the chart has the layer of B alone.
C19_Witness ==
    /\ ShowsChart
    /\ stacked
    /\ rollingAvgs["A"] = <<>>
    /\ rollingAvgs["B"] = <<<<0, Rat(5, 1)>>, <<2, Rat(5, 1)>>>>
    /\ Len(optionSeries) = 1
    /\ optionSeries[1].name = "B"
    /\ optionSeries[1].data = rollingAvgs["B"]

-----------------------------------------------------------------------------
(* Timeline controller: properties *)

\* The cursor was put at the end of the timeline: by the first render, by the
\* automatic stop of a playback, or by the slider dragged to its maximum.
CursorPutAtEnd ==
    \/ lastEvent \in {"mount", "stop"}
    \/ lastEvent = "slider" /\ currentDays = totalDays

\* C1 (restart-on-replay): whenever the controller is Idle with the cursor put at
\* the end (by initialisation, by the automatic stop, or by the slider at its
\* maximum) and play is requested, the cursor is reset to startDate and the
\* state becomes Playing; and the tick that follows a restart moves the cursor
\* to startDate + step.
C1_RestartOnReplay ==
    [][ /\ (HandlePlayPause /\ ~isPlaying /\ CursorPutAtEnd)
            => (currentDate' = startDate /\ isPlaying')
        /\ (TickSome /\ lastEvent = "restart")
            => currentDate' = startDate + StepUnits ]_vars

\* C7 (automatic stop): while Playing, a tick on which cursor + step exceeds the
\* end bound puts the cursor exactly on that end bound and makes the state Idle;
\* and while Idle the cursor changes only by a play request or by the slider,
\* never by a tick.  The end bound of a tick is the endDate its interval
\* compares with: the endDate of the render that armed the interval.
C7_AutomaticStop ==
    /\ [][ \A i \in 1..Len(intervals) :
             (Tick(i) /\ isPlaying /\ currentDate + StepUnits > intervals[i].endDate)
                => (currentDate' = intervals[i].endDate /\ ~isPlaying') ]_vars
    /\ [][ (~isPlaying /\ currentDate' # currentDate)
             => (HandlePlayPause \/ SliderSome) ]_vars

\* A playback was stopped by a tick that clamped the cursor (every cursor a
\* tick reaches by a whole step lies a whole number of days after startDate).
C7_Witness ==
    /\ lastEvent = "stop"
    /\ ~isPlaying
    /\ (currentDate - startDate) % DayUnits # 0
    /\ intervals = <<>>

\* C8 as claimed (tick step): while Playing, on every tick where
\* cursor + step <= end bound, landing exactly on it included, the cursor
\* advances by exactly the step of 30 days and the state remains Playing.
C8_TickStepInclusive ==
    [][ \A i \in 1..Len(intervals) :
          (Tick(i) /\ isPlaying /\ currentDate + StepUnits <= intervals[i].endDate)
             => (currentDate' = currentDate + 30 * DayUnits /\ isPlaying') ]_vars

\* C8 as amended: while Playing, on every tick where cursor + step < end bound
\* the cursor advances by exactly 30 days and the state remains Playing; on a
\* tick where cursor + step = end bound the cursor advances by exactly 30 days
\* onto the end bound and the state becomes Idle.
C8_TickStep ==
    [][ \A i \in 1..Len(intervals) :
          /\ (Tick(i) /\ isPlaying /\ currentDate + StepUnits < intervals[i].endDate)
                => (currentDate' = currentDate + 30 * DayUnits /\ isPlaying')
          /\ (Tick(i) /\ isPlaying /\ currentDate + StepUnits = intervals[i].endDate)
                => (currentDate' = currentDate + 30 * DayUnits /\ ~isPlaying') ]_vars

\* A tick advanced the cursor of a playback that goes on.
C8_Witness ==
    /\ lastEvent = "advance"
    /\ isPlaying
    /\ currentDate = startDate + 30 * DayUnits
    /\ Len(intervals) = 1

\* C9 (setCursor): the slider's onDateChange is accepted in Idle and in Playing,
\* sets the cursor to the date of the slider value, and leaves the playing
\* flag as it was: a Playing controller still has its interval, an Idle one
\* has none.
C9_SetCursorKeepsPlayState ==
    /\ [](mounted => ENABLED SliderSome)
    /\ [][ \A v \in 0..totalDays :
             HandleSliderChange(v)
                => /\ currentDate' = startDate + v * DayUnits
                   /\ isPlaying' = isPlaying
                   /\ isPlaying => Len(intervals') = 1
                   /\ ~isPlaying => intervals' = <<>> ]_vars

\* The slider moved the cursor during a playback, which goes on.
C9_Witness ==
    /\ lastEvent = "slider"
    /\ isPlaying
    /\ Len(intervals) = 1
    /\ currentDate < endDate

\* C10 (cancellation): at most one interval is active at any time; none is
\* active while the controller is Idle or unmounted; a tick fires only while
\* the controller is mounted and Playing.
C10_Cancellation ==
    /\ [](Len(intervals) <= 1)
    /\ []((~isPlaying \/ ~mounted) => intervals = <<>>)
    /\ [][ TickSome => (mounted /\ isPlaying) ]_vars

\* A playback was paused and time went on with no interval left.
C10_Witness ==
    /\ lastEvent = "pause"
    /\ ~isPlaying
    /\ intervals = <<>>
    /\ now > endDate

\* C11 as claimed (scheduler misuse): a request of the play/pause control that
\* repeats the one before it is a no-op: a request that follows a play request
\* leaves the state Playing and the cursor unchanged, a request that follows a
\* pause request leaves the state Idle and the cursor unchanged.
C11_RepeatedRequestIsNoOp ==
    [][ /\ (HandlePlayPause /\ lastEvent \in {"play", "restart"})
            => (isPlaying' /\ currentDate' = currentDate)
        /\ (HandlePlayPause /\ lastEvent = "pause")
            => (~isPlaying' /\ currentDate' = currentDate) ]_vars

\* C11 as amended: the play/pause control has one request, which toggles: while
\* Playing it makes the state Idle, cancels the interval and leaves the cursor
\* unchanged; while Idle with the cursor before the end bound it makes the state
\* Playing and leaves the cursor unchanged.  Stopping the schedule again is a
\* no-op: while Idle no interval is active and an unmount changes neither the
\* state nor the cursor.
C11_RequestToggles ==
    [][ /\ (HandlePlayPause /\ isPlaying)
            => (~isPlaying' /\ currentDate' = currentDate /\ intervals' = <<>>)
        /\ (HandlePlayPause /\ ~isPlaying /\ currentDate < endDate)
            => (isPlaying' /\ currentDate' = currentDate /\ Len(intervals') = 1)
        /\ (Unmount /\ ~isPlaying)
            => (intervals = <<>> /\ intervals' = <<>> /\ ~isPlaying'
                  /\ currentDate' = currentDate) ]_vars

\* A playback that has advanced the cursor was paused by a request, with the
\* cursor left before the end.
C11_Witness ==
    /\ lastEvent = "pause"
    /\ ~isPlaying
    /\ intervals = <<>>
    /\ currentDate = startDate + StepUnits
    /\ currentDate < endDate

\* C12 (sequential ticks): a tick of a playback that no slider change has
\* interrupted since the previous tick or the play request moves the cursor
\* strictly forward; and the values the map holds are, for every country with
\* series, the support at one and the same date, the cursor's.
C12_SequentialTicks ==
    /\ [][ (TickSome /\ lastEvent # "slider") => currentDate' > currentDate ]_vars
    /\ [](\A c \in DOMAIN countriesData :
             timeFilteredSummary.countries[c].latestSupport
                = getSupportAtDate(countriesData[c].seriesByParty,
                                   ActivePartiesOf(countriesData[c]), currentDate))

\* A restarted playback has made its first tick: the cursor is one step after
\* startDate and DE shows the values of that date (20 and 5).
C12_Witness ==
    /\ lastEvent = "advance"
    /\ isPlaying
    /\ currentDate = startDate + StepUnits
    /\ timeFilteredSummary.countries["DE"].latestSupport = 25
    /\ timeFilteredSummary.countries["FR"].latestSupport = 31

\* C13 (fixed bounds): the end bound has the same value in every state of the
\* view session, so the end bound an automatic stop has put the cursor on is
\* the end bound the slider is given and a play request compares the cursor
\* with.
C13_BoundsFixed ==
    /\ [][ endDate' = endDate ]_vars
    /\ [](lastEvent = "stop" => currentDate = endDate)

\* C20 (cursor within the bounds): in every state startDate <= cursor <= end
\* bound, the end bound being the endDate of the latest render; the cursor
\* starts on the end bound with the controller Idle.
C20_CursorWithinBounds ==
    /\ startDate <= currentDate
    /\ currentDate <= endDate
    /\ lastEvent = "mount" => (currentDate = endDate /\ ~isPlaying)

\* The slider has put the cursor strictly inside the bounds during a playback.
C20_Witness ==
    /\ lastEvent = "slider"
    /\ isPlaying
    /\ startDate < currentDate
    /\ currentDate < endDate - StepUnits

\* C21 (playback terminates): once the controller is Playing and is left
\* alone, with the timer firing when due, it eventually is Idle with the
\* cursor on the end bound.
C21_PlaybackTerminates ==
    isPlaying ~> (~isPlaying /\ currentDate = endDate)

\* C22 (no lost cursor update): a slider change during a playback puts the
\* cursor on the slider's date d, and the tick that follows it computes from
\* d: the cursor becomes d + step, or the end bound of the tick when d + step
\* reaches it.
C22_TickFromSliderDate ==
    [][ /\ \A v \in 0..totalDays :
             (HandleSliderChange(v) /\ isPlaying)
                => (currentDate' = SliderDate(v) /\ isPlaying' /\ Len(intervals') = 1)
        /\ \A i \in 1..Len(intervals) :
             (Tick(i) /\ isPlaying /\ lastEvent = "slider")
                => currentDate' = IF currentDate + StepUnits < intervals[i].endDate
                                     THEN currentDate + StepUnits
                                     ELSE intervals[i].endDate ]_vars

\* A tick has advanced a playback from day 1, a date only the slider gives.
C22_Witness ==
    /\ lastEvent = "advance"
    /\ isPlaying
    /\ currentDate = SliderDate(1) + StepUnits

====
